---- MODULE Spec2Model ----
(***************************************************************************)
(* A model of src/mutex/src/main.rs: the fixed-capacity RingBuffer and the *)
(* SafeRingBuffer that shares it between threads behind a std Mutex.       *)
(*                                                                         *)
(* The protected RingBuffer is the record `inner`; the Mutex is the pair   *)
(* locked / poisoned.  Every thread runs SafeRingBuffer::push or ::pop one *)
(* statement of the source at a time (pc names the statement it is at), so *)
(* that the interleavings the lock forbids are forbidden by the lock and   *)
(* not by the granularity of the model.                                    *)
(***************************************************************************)
EXTENDS Integers, Sequences, FiniteSets, Bags, TLC

\* Bounds of the model.
MaxCap == 2
NThreads == 3
MaxVal == 2
MaxOps == 4
ItemsPerProducer == 1
MaxFaultOps == 3

Threads == 1..NThreads
Values == 1..MaxVal
Capacities == 0..MaxCap

\* usize::MAX, at the width of TLC's integers (31 bits): above every size and
\* capacity of the model, so that a wrapped size is told from a valid one.
UsizeMax == (2^30 - 1) + 2^30

\* Option<u8> and Result<(), BufferError> as records of one shape.
None == [tag |-> "None", v |-> 0]
Some(v) == [tag |-> "Some", v |-> v]
Ok == [tag |-> "Ok", v |-> 0]
Err_Full == [tag |-> "Full", v |-> 0]
\* Not a value of the program: the call did not return, the thread panicked.
Panicked == [tag |-> "Panic", v |-> 0]
\* Not a value of the program: no result computed yet.
Unset == [tag |-> "Unset", v |-> 0]

VARIABLES
    inner,      \* SafeRingBuffer.inner: the RingBuffer inside the Mutex
    locked,     \* the Mutex is held (a MutexGuard is alive)
    poisoned,   \* the Mutex is poisoned (a holder panicked)
    pc,         \* pc[t]: the statement thread t is at
    arg,        \* arg[t]: `value` of the push call of t
    value,      \* value[t]: the local `value` of RingBuffer::pop of t
    ret,        \* ret[t]: the result the call of t is about to return
    log,        \* history: the completed calls, in the order they returned
    model,      \* history: a single-threaded RingBuffer, fed the same calls
    expect,     \* history: expect[t], what `model` answered to the call of t
    entry,      \* history: entry[t], `inner` when t acquired the lock
    nprod       \* harness only: the number of producer threads (else 0)

vars == <<inner, locked, poisoned, pc, arg, value, ret, log, model, expect, entry, nprod>>

----------------------------------------------------------------------------
\* RingBuffer, lines 20-65.

RingBuffer_new(capacity) ==
    [data |-> [i \in 0..(capacity - 1) |-> None],
     head |-> 0, tail |-> 0, size |-> 0, capacity |-> capacity]

\* is_empty that tells a buffer without storage from an empty one.
is_empty_no_storage(rb) == rb.capacity = 0

\* lines 33-35
is_empty(rb) == rb.size = 0

\* is_full that reports a buffer full one push late.
is_full_late(rb) == rb.size > rb.capacity

\* lines 38-40
is_full(rb) == rb.size = rb.capacity

\* Indexing a Vec panics when the index is not below its length.
InRange(rb, i) == i \in DOMAIN rb.data

\* push that writes the slot at head.
push_store_at_head(rb, v) == [rb EXCEPT !.data[rb.head] = Some(v)]

\* line 48: self.data[self.tail] = Some(value)
push_store(rb, v) == [rb EXCEPT !.data[rb.tail] = Some(v)]

\* push that advances tail without wrapping it around.
push_tail_no_wrap(rb) == [rb EXCEPT !.tail = rb.tail + 1]

\* line 49: self.tail = (self.tail + 1) % self.capacity
push_tail(rb) == [rb EXCEPT !.tail = (rb.tail + 1) % rb.capacity]

\* line 50: self.size += 1
push_size(rb) == [rb EXCEPT !.size = rb.size + 1]

\* line 60, first half of take(): read the slot at head
pop_read(rb) == rb.data[rb.head]

\* pop that copies the value out and leaves it in the slot.
pop_clear_forgotten(rb) == rb

\* line 60, second half of take(): leave None in the slot at head
pop_clear(rb) == [rb EXCEPT !.data[rb.head] = None]

\* pop that leaves head where it was.
pop_head_stuck(rb) == rb

\* line 61: self.head = (self.head + 1) % self.capacity
pop_head(rb) == [rb EXCEPT !.head = (rb.head + 1) % rb.capacity]

\* pop that forgets to give the slot back.
pop_size_forgotten(rb) == rb

\* line 62: self.size -= 1
pop_size(rb) == [rb EXCEPT !.size = rb.size - 1]

\* RingBuffer::push run by one thread alone, lines 43-52: the buffer after the
\* call and the result (Panicked when a statement of it panics).
RingBuffer_push(rb, v) ==
    IF is_full(rb) THEN [rb |-> rb, res |-> Err_Full]
    ELSE IF ~InRange(rb, rb.tail) \/ rb.capacity = 0 \/ rb.size = UsizeMax
         THEN [rb |-> rb, res |-> Panicked]
         ELSE [rb |-> push_size(push_tail(push_store(rb, v))), res |-> Ok]

\* RingBuffer::pop run by one thread alone, lines 55-64.
RingBuffer_pop(rb) ==
    IF is_empty(rb) THEN [rb |-> rb, res |-> None]
    ELSE IF ~InRange(rb, rb.head) \/ rb.capacity = 0
         THEN [rb |-> rb, res |-> Panicked]
         ELSE [rb |-> pop_size(pop_head(pop_clear(rb))), res |-> pop_read(rb)]

----------------------------------------------------------------------------
\* SafeRingBuffer, lines 67-92, one statement at a time.

\* The statements at which a thread owns the MutexGuard `buffer`.
PushCritical == {"push_is_full", "push_store", "push_tail", "push_size", "push_ret"}
PopCritical == {"pop_is_empty", "pop_read", "pop_clear", "pop_head", "pop_size", "pop_ret"}
Critical == PushCritical \cup PopCritical

HoldsGuard(t) == pc[t] \in Critical

InCall(t) == pc[t] \notin {"idle", "panicked"}

\* A Mutex whose lock() never blocks.
LockNeverBlocks == TRUE

\* Mutex::lock returns only when no other guard is alive.
LockAvailable == ~locked

\* The calls begun so far: the bound on the calls of a run.
Started == Len(log) + Cardinality({t \in Threads : InCall(t)})

\* SafeRingBuffer::new(capacity), lines 74-78; no thread has called yet.
Init ==
    /\ \E capacity \in Capacities :
         /\ inner = RingBuffer_new(capacity)
         /\ model = RingBuffer_new(capacity)
    /\ locked = FALSE
    /\ poisoned = FALSE
    /\ pc = [t \in Threads |-> "idle"]
    /\ arg = [t \in Threads |-> 0]
    /\ value = [t \in Threads |-> None]
    /\ ret = [t \in Threads |-> Unset]
    /\ log = <<>>
    /\ expect = [t \in Threads |-> Unset]
    /\ entry = [t \in Threads |-> RingBuffer_new(0)]
    /\ nprod = 0

\* A thread calls buffer.push(v): it arrives at line 82.
CallPush(t) ==
    /\ pc[t] = "idle"
    /\ Started < MaxOps
    /\ \E v \in Values : arg' = [arg EXCEPT ![t] = v]
    /\ pc' = [pc EXCEPT ![t] = "push_lock"]
    /\ UNCHANGED <<inner, locked, poisoned, value, ret, log, model, expect, entry, nprod>>

\* A thread calls buffer.pop(): it arrives at line 89.
CallPop(t) ==
    /\ pc[t] = "idle"
    /\ Started < MaxOps
    /\ pc' = [pc EXCEPT ![t] = "pop_lock"]
    /\ UNCHANGED <<inner, locked, poisoned, arg, value, ret, log, model, expect, entry, nprod>>

\* A panic of thread t: unwinding drops its guard, which poisons and unlocks
\* the Mutex; the call never returns.
Panic(t) ==
    /\ pc' = [pc EXCEPT ![t] = "panicked"]
    /\ ret' = [ret EXCEPT ![t] = Panicked]
    /\ locked' = IF HoldsGuard(t) THEN FALSE ELSE locked
    /\ poisoned' = IF HoldsGuard(t) THEN TRUE ELSE poisoned

\* push that takes the guard out of a poisoned Mutex and carries on.
PushLockIgnoresPoison(t) ==
    /\ pc[t] = "push_lock"
    /\ LockAvailable
    /\ locked' = TRUE
    /\ pc' = [pc EXCEPT ![t] = "push_is_full"]
    /\ model' = RingBuffer_push(model, arg[t]).rb
    /\ expect' = [expect EXCEPT ![t] = RingBuffer_push(model, arg[t]).res]
    /\ entry' = [entry EXCEPT ![t] = inner]
    /\ UNCHANGED <<inner, poisoned, arg, value, ret, log, nprod>>

\* line 82: let mut buffer = self.inner.lock().unwrap()
PushLock(t) ==
    /\ pc[t] = "push_lock"
    /\ LockAvailable
    /\ IF poisoned
       THEN /\ Panic(t)
            /\ UNCHANGED <<inner, arg, value, log, model, expect, entry, nprod>>
       ELSE /\ locked' = TRUE
            /\ pc' = [pc EXCEPT ![t] = "push_is_full"]
            /\ model' = RingBuffer_push(model, arg[t]).rb
            /\ expect' = [expect EXCEPT ![t] = RingBuffer_push(model, arg[t]).res]
            /\ entry' = [entry EXCEPT ![t] = inner]
            /\ UNCHANGED <<inner, poisoned, arg, value, ret, log, nprod>>

\* lines 44-46: if self.is_full() { return Err(BufferError::Full); }
PushIsFull(t) ==
    /\ pc[t] = "push_is_full"
    /\ IF is_full(inner)
       THEN /\ ret' = [ret EXCEPT ![t] = Err_Full]
            /\ pc' = [pc EXCEPT ![t] = "push_ret"]
       ELSE /\ pc' = [pc EXCEPT ![t] = "push_store"]
            /\ UNCHANGED ret
    /\ UNCHANGED <<inner, locked, poisoned, arg, value, log, model, expect, entry, nprod>>

\* line 48
PushStore(t) ==
    /\ pc[t] = "push_store"
    /\ IF ~InRange(inner, inner.tail)
       THEN /\ Panic(t)
            /\ UNCHANGED inner
       ELSE /\ inner' = push_store(inner, arg[t])
            /\ pc' = [pc EXCEPT ![t] = "push_tail"]
            /\ UNCHANGED <<locked, poisoned, ret>>
    /\ UNCHANGED <<arg, value, log, model, expect, entry, nprod>>

\* line 49; a remainder by zero panics
PushTail(t) ==
    /\ pc[t] = "push_tail"
    /\ IF inner.capacity = 0
       THEN /\ Panic(t)
            /\ UNCHANGED inner
       ELSE /\ inner' = push_tail(inner)
            /\ pc' = [pc EXCEPT ![t] = "push_size"]
            /\ UNCHANGED <<locked, poisoned, ret>>
    /\ UNCHANGED <<arg, value, log, model, expect, entry, nprod>>

\* lines 50-51; an overflowing += panics in a build with overflow checks and
\* wraps in one without
PushSize(t) ==
    /\ pc[t] = "push_size"
    /\ IF inner.size = UsizeMax
       THEN \E checks \in BOOLEAN :
              IF checks
              THEN /\ Panic(t)
                   /\ UNCHANGED inner
              ELSE /\ inner' = [inner EXCEPT !.size = 0]
                   /\ ret' = [ret EXCEPT ![t] = Ok]
                   /\ pc' = [pc EXCEPT ![t] = "push_ret"]
                   /\ UNCHANGED <<locked, poisoned>>
       ELSE /\ inner' = push_size(inner)
            /\ ret' = [ret EXCEPT ![t] = Ok]
            /\ pc' = [pc EXCEPT ![t] = "push_ret"]
            /\ UNCHANGED <<locked, poisoned>>
    /\ UNCHANGED <<arg, value, log, model, expect, entry, nprod>>

\* push that returns with the guard leaked: the Mutex stays locked.
PushReturnLeaksGuard(t) ==
    /\ pc[t] = "push_ret"
    /\ log' = Append(log, [op |-> "push", arg |-> arg[t], res |-> ret[t]])
    /\ pc' = [pc EXCEPT ![t] = "idle"]
    /\ arg' = [arg EXCEPT ![t] = 0]
    /\ ret' = [ret EXCEPT ![t] = Unset]
    /\ expect' = [expect EXCEPT ![t] = Unset]
    /\ entry' = [entry EXCEPT ![t] = RingBuffer_new(0)]
    /\ UNCHANGED <<inner, locked, poisoned, value, model, nprod>>

\* line 85: the guard `buffer` is dropped and push returns
PushReturn(t) ==
    /\ pc[t] = "push_ret"
    /\ locked' = FALSE
    /\ log' = Append(log, [op |-> "push", arg |-> arg[t], res |-> ret[t]])
    /\ pc' = [pc EXCEPT ![t] = "idle"]
    /\ arg' = [arg EXCEPT ![t] = 0]
    /\ ret' = [ret EXCEPT ![t] = Unset]
    /\ expect' = [expect EXCEPT ![t] = Unset]
    /\ entry' = [entry EXCEPT ![t] = RingBuffer_new(0)]
    /\ UNCHANGED <<inner, poisoned, value, model, nprod>>

\* pop taking the buffer without waiting for the Mutex.
PopLockNoWait(t) ==
    /\ pc[t] = "pop_lock"
    /\ locked' = TRUE
    /\ pc' = [pc EXCEPT ![t] = "pop_is_empty"]
    /\ model' = RingBuffer_pop(model).rb
    /\ expect' = [expect EXCEPT ![t] = RingBuffer_pop(model).res]
    /\ entry' = [entry EXCEPT ![t] = inner]
    /\ UNCHANGED <<inner, poisoned, arg, value, ret, log, nprod>>

\* line 89: let mut buffer = self.inner.lock().unwrap()
PopLock(t) ==
    /\ pc[t] = "pop_lock"
    /\ LockAvailable
    /\ IF poisoned
       THEN /\ Panic(t)
            /\ UNCHANGED <<inner, arg, value, log, model, expect, entry, nprod>>
       ELSE /\ locked' = TRUE
            /\ pc' = [pc EXCEPT ![t] = "pop_is_empty"]
            /\ model' = RingBuffer_pop(model).rb
            /\ expect' = [expect EXCEPT ![t] = RingBuffer_pop(model).res]
            /\ entry' = [entry EXCEPT ![t] = inner]
            /\ UNCHANGED <<inner, poisoned, arg, value, ret, log, nprod>>

\* lines 56-58: if self.is_empty() { return None; }
PopIsEmpty(t) ==
    /\ pc[t] = "pop_is_empty"
    /\ IF is_empty(inner)
       THEN /\ ret' = [ret EXCEPT ![t] = None]
            /\ pc' = [pc EXCEPT ![t] = "pop_ret"]
       ELSE /\ pc' = [pc EXCEPT ![t] = "pop_read"]
            /\ UNCHANGED ret
    /\ UNCHANGED <<inner, locked, poisoned, arg, value, log, model, expect, entry, nprod>>

\* line 60: let value = self.data[self.head].take(), the read
PopRead(t) ==
    /\ pc[t] = "pop_read"
    /\ IF ~InRange(inner, inner.head)
       THEN /\ Panic(t)
            /\ UNCHANGED value
       ELSE /\ value' = [value EXCEPT ![t] = pop_read(inner)]
            /\ pc' = [pc EXCEPT ![t] = "pop_clear"]
            /\ UNCHANGED <<locked, poisoned, ret>>
    /\ UNCHANGED <<inner, arg, log, model, expect, entry, nprod>>

\* line 60: take() leaves None in the slot
PopClear(t) ==
    /\ pc[t] = "pop_clear"
    /\ inner' = pop_clear(inner)
    /\ pc' = [pc EXCEPT ![t] = "pop_head"]
    /\ UNCHANGED <<locked, poisoned, arg, value, ret, log, model, expect, entry, nprod>>

\* line 61; a remainder by zero panics
PopHead(t) ==
    /\ pc[t] = "pop_head"
    /\ IF inner.capacity = 0
       THEN /\ Panic(t)
            /\ UNCHANGED inner
       ELSE /\ inner' = pop_head(inner)
            /\ pc' = [pc EXCEPT ![t] = "pop_size"]
            /\ UNCHANGED <<locked, poisoned, ret>>
    /\ UNCHANGED <<arg, value, log, model, expect, entry, nprod>>

\* lines 62-63; an underflowing -= panics in a build with overflow checks and
\* wraps in one without
PopSize(t) ==
    /\ pc[t] = "pop_size"
    /\ IF inner.size = 0
       THEN \E checks \in BOOLEAN :
              IF checks
              THEN /\ Panic(t)
                   /\ UNCHANGED inner
              ELSE /\ inner' = [inner EXCEPT !.size = UsizeMax]
                   /\ ret' = [ret EXCEPT ![t] = value[t]]
                   /\ pc' = [pc EXCEPT ![t] = "pop_ret"]
                   /\ UNCHANGED <<locked, poisoned>>
       ELSE /\ inner' = pop_size(inner)
            /\ ret' = [ret EXCEPT ![t] = value[t]]
            /\ pc' = [pc EXCEPT ![t] = "pop_ret"]
            /\ UNCHANGED <<locked, poisoned>>
    /\ UNCHANGED <<arg, value, log, model, expect, entry, nprod>>

\* pop that returns with the guard leaked: the Mutex stays locked.
PopReturnLeaksGuard(t) ==
    /\ pc[t] = "pop_ret"
    /\ log' = Append(log, [op |-> "pop", arg |-> 0, res |-> ret[t]])
    /\ pc' = [pc EXCEPT ![t] = "idle"]
    /\ value' = [value EXCEPT ![t] = None]
    /\ ret' = [ret EXCEPT ![t] = Unset]
    /\ expect' = [expect EXCEPT ![t] = Unset]
    /\ entry' = [entry EXCEPT ![t] = RingBuffer_new(0)]
    /\ UNCHANGED <<inner, locked, poisoned, arg, model, nprod>>

\* line 91: the guard `buffer` is dropped and pop returns
PopReturn(t) ==
    /\ pc[t] = "pop_ret"
    /\ locked' = FALSE
    /\ log' = Append(log, [op |-> "pop", arg |-> 0, res |-> ret[t]])
    /\ pc' = [pc EXCEPT ![t] = "idle"]
    /\ value' = [value EXCEPT ![t] = None]
    /\ ret' = [ret EXCEPT ![t] = Unset]
    /\ expect' = [expect EXCEPT ![t] = Unset]
    /\ entry' = [entry EXCEPT ![t] = RingBuffer_new(0)]
    /\ UNCHANGED <<inner, poisoned, arg, model, nprod>>

\* The statements of a call after it was made.
Run(t) ==
    \/ PushLock(t) \/ PushIsFull(t) \/ PushStore(t) \/ PushTail(t) \/ PushSize(t)
    \/ PushReturn(t)
    \/ PopLock(t) \/ PopIsEmpty(t) \/ PopRead(t) \/ PopClear(t) \/ PopHead(t)
    \/ PopSize(t) \/ PopReturn(t)

Next == \E t \in Threads : CallPush(t) \/ CallPop(t) \/ Run(t)

Spec == Init /\ [][Next]_vars

\* Threads are preemptible and run in parallel: a thread that can take its
\* next statement takes it.
FairSpec == Spec /\ \A t \in Threads : WF_vars(Run(t))

----------------------------------------------------------------------------
\* Lock abandonment.  No statement of push or pop panics on a buffer made by
\* new, so a Mutex of this program is poisoned only when a thread is brought
\* down from outside while its guard `buffer` (lines 82-85, 89-91) is alive.

\* Thread t panics at whatever statement of the critical section it is at:
\* unwinding drops the guard, which poisons and unlocks the Mutex, and leaves
\* the RingBuffer as the statements run so far made it.
HolderPanics(t) ==
    /\ HoldsGuard(t)
    /\ Panic(t)
    /\ UNCHANGED <<inner, arg, value, log, model, expect, entry, nprod>>

\* The calls begun so far in a run with panics, those that never returned
\* included.
StartedOrPanicked == Started + Cardinality({t \in Threads : pc[t] = "panicked"})

FaultCallPush(t) == StartedOrPanicked < MaxFaultOps /\ CallPush(t)

FaultCallPop(t) == StartedOrPanicked < MaxFaultOps /\ CallPop(t)

NextPoison ==
    \E t \in Threads : FaultCallPush(t) \/ FaultCallPop(t) \/ Run(t) \/ HolderPanics(t)

SpecPoison == Init /\ [][NextPoison]_vars

----------------------------------------------------------------------------
\* The callers of tests::test_multi_thread, lines 158-202: producer threads
\* that push values of their own, consumer threads that pop and collect.

Producers == 1..nprod
Consumers == (nprod + 1)..NThreads

\* line 167: the j-th value of producer thread t (i = t - 1 in the source)
ProducerValue(t, j) == (t - 1) * 20 + j

OwnValues(t) == {ProducerValue(t, j) : j \in 1..ItemsPerProducer}

\* The push calls of producer t that returned.
PushesOf(t) == SelectSeq(log, LAMBDA e : e.op = "push" /\ e.arg \in OwnValues(t))

\* The values the consumers collected so far (line 188).
Collected == SelectSeq(log, LAMBDA e : e.op = "pop" /\ e.res.tag = "Some")

\* The pop calls the consumers began so far.
PopsBegun ==
    Len(SelectSeq(log, LAMBDA e : e.op = "pop"))
        + Cardinality({t \in Threads : pc[t] \in PopCritical \cup {"pop_lock"}})

InitHarness ==
    /\ \E capacity \in Capacities :
         /\ inner = RingBuffer_new(capacity)
         /\ model = RingBuffer_new(capacity)
    /\ locked = FALSE
    /\ poisoned = FALSE
    /\ pc = [t \in Threads |-> "idle"]
    /\ arg = [t \in Threads |-> 0]
    /\ value = [t \in Threads |-> None]
    /\ ret = [t \in Threads |-> Unset]
    /\ log = <<>>
    /\ expect = [t \in Threads |-> Unset]
    /\ entry = [t \in Threads |-> RingBuffer_new(0)]
    /\ nprod \in 1..(NThreads - 1)

\* lines 166-171: for j in 1..=K { if let Err(e) = buffer.push(i * 20 + j) { break; } }
ProducerCall(t) ==
    /\ t \in Producers
    /\ pc[t] = "idle"
    /\ Len(PushesOf(t)) < ItemsPerProducer
    /\ \A i \in DOMAIN PushesOf(t) : PushesOf(t)[i].res = Ok
    /\ arg' = [arg EXCEPT ![t] = ProducerValue(t, Len(PushesOf(t)) + 1)]
    /\ pc' = [pc EXCEPT ![t] = "push_lock"]
    /\ UNCHANGED <<inner, locked, poisoned, value, ret, log, model, expect, entry, nprod>>

\* line 186: for _ in 1..=K, in each consumer
MaxPops == ItemsPerProducer * Cardinality(Consumers)

\* lines 186-190: if let Some(val) = buffer.pop() { .. }, in a loop: a consumer
\* pops again while values are still to be collected, and the consumers make
\* K pop calls each.
ConsumerCall(t) ==
    /\ t \in Consumers
    /\ pc[t] = "idle"
    /\ Len(Collected) < nprod * ItemsPerProducer
    /\ PopsBegun < MaxPops
    /\ pc' = [pc EXCEPT ![t] = "pop_lock"]
    /\ UNCHANGED <<inner, locked, poisoned, arg, value, ret, log, model, expect, entry, nprod>>

NextHarness == \E t \in Threads : ProducerCall(t) \/ ConsumerCall(t) \/ Run(t)

SpecHarness == InitHarness /\ [][NextHarness]_vars

----------------------------------------------------------------------------
\* tests::test_single_thread, lines 139-155: one thread makes ten calls and
\* asserts the result of each.

\* line 140: SafeRingBuffer::new(3)
TestCapacity == 3

\* The thread that runs the test.
TestThread == 1

\* lines 143-154: the calls, in order
TestCalls ==
    <<[op |-> "push", arg |-> 1], [op |-> "push", arg |-> 2],
      [op |-> "push", arg |-> 3], [op |-> "push", arg |-> 4],
      [op |-> "pop", arg |-> 0], [op |-> "pop", arg |-> 0],
      [op |-> "push", arg |-> 4],
      [op |-> "pop", arg |-> 0], [op |-> "pop", arg |-> 0],
      [op |-> "pop", arg |-> 0]>>

\* lines 143-154: the right-hand sides of the assert_eq!s
TestAsserted ==
    <<Ok, Ok, Ok, Err_Full, Some(1), Some(2), Ok, Some(3), Some(4), None>>

\* The test run on a buffer of every capacity up to its own.
InitTest ==
    /\ \E capacity \in 0..TestCapacity :
         /\ inner = RingBuffer_new(capacity)
         /\ model = RingBuffer_new(capacity)
    /\ locked = FALSE
    /\ poisoned = FALSE
    /\ pc = [t \in Threads |-> "idle"]
    /\ arg = [t \in Threads |-> 0]
    /\ value = [t \in Threads |-> None]
    /\ ret = [t \in Threads |-> Unset]
    /\ log = <<>>
    /\ expect = [t \in Threads |-> Unset]
    /\ entry = [t \in Threads |-> RingBuffer_new(0)]
    /\ nprod = 0

\* The next statement of the test: assert_eq! panics when the call before
\* returned something else than asserted, otherwise the next call is made.
TestCall(t) ==
    /\ t = TestThread
    /\ pc[t] = "idle"
    /\ IF Len(log) > 0 /\ log[Len(log)].res # TestAsserted[Len(log)]
       THEN /\ Panic(t)
            /\ UNCHANGED arg
       ELSE /\ Len(log) < Len(TestCalls)
            /\ arg' = [arg EXCEPT ![t] = TestCalls[Len(log) + 1].arg]
            /\ pc' = [pc EXCEPT ![t] =
                        IF TestCalls[Len(log) + 1].op = "push"
                        THEN "push_lock" ELSE "pop_lock"]
            /\ UNCHANGED <<locked, poisoned, ret>>
    /\ UNCHANGED <<inner, value, log, model, expect, entry, nprod>>

NextTest == \E t \in Threads : TestCall(t) \/ Run(t)

SpecTest == InitTest /\ [][NextTest]_vars

----------------------------------------------------------------------------
\* main, lines 94-131: a single-threaded demonstration, then one writer
\* thread and one reader thread on the same buffer.

\* line 96: SafeRingBuffer::new(5)
MainCapacity == 5

\* line 113: for i in 1..=5
WriterItems == 5

\* line 121: for _ in 1..=5
ReaderAttempts == 5

\* The thread of main, the thread spawned at line 112 and the one spawned at
\* line 120.
MainThread == 1
WriterThread == 2
ReaderThread == 3

\* lines 100-105: the calls of the single-threaded demonstration
MainCalls ==
    <<[op |-> "push", arg |-> 10], [op |-> "push", arg |-> 20],
      [op |-> "pop", arg |-> 0],
      [op |-> "push", arg |-> 30],
      [op |-> "pop", arg |-> 0], [op |-> "pop", arg |-> 0]>>

\* The calls of the writer and of the reader that returned: those after the
\* calls of the single-threaded demonstration.
WriterLog ==
    SelectSeq(SubSeq(log, Len(MainCalls) + 1, Len(log)), LAMBDA e : e.op = "push")
ReaderLog ==
    SelectSeq(SubSeq(log, Len(MainCalls) + 1, Len(log)), LAMBDA e : e.op = "pop")

InitMain ==
    /\ inner = RingBuffer_new(MainCapacity)
    /\ model = RingBuffer_new(MainCapacity)
    /\ locked = FALSE
    /\ poisoned = FALSE
    /\ pc = [t \in Threads |-> "idle"]
    /\ arg = [t \in Threads |-> 0]
    /\ value = [t \in Threads |-> None]
    /\ ret = [t \in Threads |-> Unset]
    /\ log = <<>>
    /\ expect = [t \in Threads |-> Unset]
    /\ entry = [t \in Threads |-> RingBuffer_new(0)]
    /\ nprod = 0

\* lines 100-105: the next statement of main; the unwrap() of a push that
\* returned Err panics.
MainCall(t) ==
    /\ t = MainThread
    /\ pc[t] = "idle"
    /\ Len(log) < Len(MainCalls)
    /\ IF Len(log) > 0 /\ log[Len(log)].res = Err_Full
       THEN /\ Panic(t)
            /\ UNCHANGED arg
       ELSE /\ arg' = [arg EXCEPT ![t] = MainCalls[Len(log) + 1].arg]
            /\ pc' = [pc EXCEPT ![t] =
                        IF MainCalls[Len(log) + 1].op = "push"
                        THEN "push_lock" ELSE "pop_lock"]
            /\ UNCHANGED <<locked, poisoned, ret>>
    /\ UNCHANGED <<inner, value, log, model, expect, entry, nprod>>

\* main has made its calls and spawned the two threads (lines 112, 120).
Spawned == Len(log) >= Len(MainCalls) /\ pc[MainThread] = "idle"

\* lines 113-116: buffer_clone.push(i).unwrap(), for i in 1..=5
WriterCall(t) ==
    /\ t = WriterThread
    /\ Spawned
    /\ pc[t] = "idle"
    /\ IF Len(WriterLog) > 0 /\ WriterLog[Len(WriterLog)].res = Err_Full
       THEN /\ Panic(t)
            /\ UNCHANGED arg
       ELSE /\ Len(WriterLog) < WriterItems
            /\ arg' = [arg EXCEPT ![t] = Len(WriterLog) + 1]
            /\ pc' = [pc EXCEPT ![t] = "push_lock"]
            /\ UNCHANGED <<locked, poisoned, ret>>
    /\ UNCHANGED <<inner, value, log, model, expect, entry, nprod>>

\* lines 121-125: if let Some(val) = buffer.pop() { .. }, five times
ReaderCall(t) ==
    /\ t = ReaderThread
    /\ Spawned
    /\ pc[t] = "idle"
    /\ Len(ReaderLog) < ReaderAttempts
    /\ pc' = [pc EXCEPT ![t] = "pop_lock"]
    /\ UNCHANGED <<inner, locked, poisoned, arg, value, ret, log, model, expect, entry, nprod>>

\* The statements of a thread of main outside push and pop.
MainStep(t) == MainCall(t) \/ WriterCall(t) \/ ReaderCall(t)

NextMain == \E t \in Threads : MainCall(t) \/ WriterCall(t) \/ ReaderCall(t) \/ Run(t)

SpecMain == InitMain /\ [][NextMain]_vars

\* The three threads run in parallel: none is stopped for ever between two
\* statements.
FairMain == SpecMain /\ \A t \in Threads : WF_vars(Run(t)) /\ WF_vars(MainStep(t))

----------------------------------------------------------------------------
\* What the callers observed, read off the log.

\* The values of the pushes that returned Ok, in the order they returned.
Pushed == SelectSeq(log, LAMBDA e : e.op = "push" /\ e.res.tag = "Ok")

\* The pops that returned Some(v), in the order they returned.
Popped == SelectSeq(log, LAMBDA e : e.op = "pop" /\ e.res.tag = "Some")

\* The bag of the values s[i].<f> of a sequence of log entries, f given as an
\* operator.
BagOf(s, F(_)) ==
    [x \in {F(s[i]) : i \in DOMAIN s} |-> Cardinality({i \in DOMAIN s : F(s[i]) = x})]

PushArg(e) == e.arg
PopVal(e) == e.res.v

Holders == {t \in Threads : HoldsGuard(t)}

\* The thread that takes the step, when exactly one thread moves.
Steps(t) == pc'[t] # pc[t] /\ \A u \in Threads \ {t} : pc'[u] = pc[u]

----------------------------------------------------------------------------
\* C1. Strict FIFO under any interleaving: at every moment the values returned
\* by the successful pops, in the order the pops held the lock, are a prefix
\* of the values of the successful pushes, in the order the pushes held it.
C1_Fifo ==
    /\ Len(Popped) <= Len(Pushed)
    /\ \A i \in DOMAIN Popped : Popped[i].res.v = Pushed[i].arg

\* Two different values came out of a buffer in the order they went in, the
\* second after head and tail both wrapped around to 0.
C1_Witness ==
    /\ inner.capacity \in {1, 2}
    /\ Len(Popped) = 2
    /\ Popped[1].res.v # Popped[2].res.v
    /\ inner.head = 0 /\ inner.tail = 0

C3_MutualExclusion ==
    /\ [](Cardinality(Holders) <= 1 /\ (locked <=> Holders # {}))
    /\ [][inner' # inner =>
            \E t \in Threads : HoldsGuard(t) /\ locked /\ Steps(t) /\ Holders = {t}]_vars

\* A thread is changing the buffer while two other threads wait for the lock.
C3_Witness ==
    \E t \in Threads :
        /\ pc[t] \in {"push_tail", "pop_head"}
        /\ inner # entry[t]
        /\ \A u \in Threads \ {t} : pc[u] \in {"push_lock", "pop_lock"}

\* C4. Size bound: in every reachable state 0 <= size <= capacity.
C4_SizeBound == 0 <= inner.size /\ inner.size <= inner.capacity

\* A full buffer of the largest capacity, with the lock contended.
C4_Witness ==
    /\ inner.capacity = MaxCap
    /\ inner.size = inner.capacity
    /\ \E t, u \in Threads : pc[t] = "push_lock" /\ pc[u] = "pop_lock"

\* C5. Push on a full buffer: a push that finds size = capacity returns Full
\* and leaves storage, head, tail and size as it found them, so that the next
\* pop still returns the oldest value pushed and not yet popped.
C5_PushFull ==
    \A t \in Threads :
        (pc[t] = "push_ret" /\ entry[t].size = entry[t].capacity) =>
            /\ ret[t] = Err_Full
            /\ inner = entry[t]
            /\ Len(Pushed) - Len(Popped) = inner.capacity
            /\ inner.capacity > 0 =>
                   /\ Len(Pushed) > Len(Popped)
                   /\ RingBuffer_pop(inner).res = Some(Pushed[Len(Popped) + 1].arg)

\* A push found a non-degenerate buffer full after exactly capacity pushes and
\* no pop, and is about to return.
C5_Witness ==
    \E t \in Threads :
        /\ pc[t] = "push_ret"
        /\ entry[t].capacity = MaxCap
        /\ entry[t].size = entry[t].capacity
        /\ Len(Pushed) = entry[t].capacity
        /\ \A i \in DOMAIN log : log[i].op = "push"

\* C6. Pop on an empty buffer: a pop that finds size = 0 returns None and
\* leaves head, tail, size and storage as it found them.
C6_PopEmpty ==
    \A t \in Threads :
        (pc[t] = "pop_ret" /\ entry[t].size = 0) =>
            /\ ret[t] = None
            /\ inner = entry[t]

\* A pop found a buffer empty that had been filled and drained, with head and
\* tail away from 0, and is about to return.
C6_Witness ==
    \E t \in Threads :
        /\ pc[t] = "pop_ret"
        /\ entry[t].size = 0
        /\ entry[t].capacity = 2
        /\ entry[t].head = 1
        /\ Len(Popped) >= 1

\* C7. Linearizable delegation: every call returns what a single-threaded
\* RingBuffer, run on the same calls in the order they acquired the lock,
\* returns at that position, and the shared buffer equals that RingBuffer when
\* a call returns and whenever no call holds the lock.
C7_Linearizable ==
    /\ \A t \in Threads :
           pc[t] \in {"push_ret", "pop_ret"} =>
               /\ ret[t] = expect[t]
               /\ ret[t].tag \in (IF pc[t] = "push_ret" THEN {"Ok", "Full"}
                                  ELSE {"Some", "None"})
               /\ inner = model
    /\ Holders = {} => inner = model

\* Calls returned Ok and Full, and a pop is about to return Some(v) while
\* another thread waits for the lock.
C7_Witness ==
    /\ \A r \in {"Ok", "Full"} : \E i \in DOMAIN log : log[i].res.tag = r
    /\ \E t \in Threads :
           /\ pc[t] = "pop_ret"
           /\ ret[t].tag = "Some"
           /\ \E u \in Threads \ {t} : pc[u] = "push_lock"

\* The calls i, i+1, i+2 of the log are a push that failed with Full, a pop and
\* a push.
FullPopPush(i) ==
    /\ i + 2 <= Len(log)
    /\ log[i].op = "push" /\ log[i].res = Err_Full
    /\ log[i + 1].op = "pop"
    /\ log[i + 2].op = "push"

Recovered(i) == log[i + 1].res.tag = "Some" /\ log[i + 2].res = Ok

\* C8 as stated. Capacity recovery for every capacity new accepts: after a push
\* failed with Full, the pop that follows returns a value and the push that
\* follows it returns Ok.
C8_Original == \A i \in DOMAIN log : FullPopPush(i) => Recovered(i)

\* C8, amended. Capacity recovery for a capacity of at least 1.
C8_Recovery ==
    inner.capacity >= 1 => \A i \in DOMAIN log : FullPopPush(i) => Recovered(i)

\* A buffer of capacity at least 1 recovered from a Full failure.
C8_Witness ==
    /\ inner.capacity >= 1
    /\ \E i \in DOMAIN log : FullPopPush(i) /\ Recovered(i)

\* C9. Capacity 0: every push fails with Full, every pop returns None, no call
\* panics (no index out of range, no remainder by zero) and head = tail =
\* size = 0 throughout.
C9_CapacityZero ==
    inner.capacity = 0 =>
        /\ \A i \in DOMAIN log :
               log[i].res = (IF log[i].op = "push" THEN Err_Full ELSE None)
        /\ \A t \in Threads :
               /\ pc[t] # "panicked"
               /\ pc[t] = "push_ret" => ret[t] = Err_Full
               /\ pc[t] = "pop_ret" => ret[t] = None
        /\ ~poisoned
        /\ inner.head = 0 /\ inner.tail = 0 /\ inner.size = 0
        /\ inner.data = <<>>

\* On a capacity-0 buffer pushes and pops returned, and one of each is about
\* to.
C9_Witness ==
    /\ inner.capacity = 0
    /\ \E i, j \in DOMAIN log : log[i].op = "push" /\ log[j].op = "pop"
    /\ \E t, u \in Threads : pc[t] = "push_ret" /\ pc[u] = "pop_lock"

\* C10. No internal waiting and termination: a push that finds the buffer full
\* and a pop that finds it empty go straight to their return, under the lock
\* they hold, with Full and None; a thread that holds the lock can always take
\* its next statement, whatever the other threads do; a call waits for the
\* lock only once, when it is made; and under fair scheduling every call
\* returns: again and again, and for good once the calls are all made, every
\* thread is back from its call.
C10_NoWaitTerminates ==
    /\ [][\A t \in Threads :
            /\ (pc[t] = "push_is_full" /\ inner.size = inner.capacity /\ pc'[t] # pc[t])
                   => (pc'[t] = "push_ret" /\ ret'[t] = Err_Full /\ locked /\ locked')
            /\ (pc[t] = "pop_is_empty" /\ inner.size = 0 /\ pc'[t] # pc[t])
                   => (pc'[t] = "pop_ret" /\ ret'[t] = None /\ locked /\ locked')
            /\ (pc'[t] \in {"push_lock", "pop_lock"} /\ pc'[t] # pc[t])
                   => pc[t] = "idle"
            /\ (pc[t] \in {"push_ret", "pop_ret"} /\ pc'[t] # pc[t])
                   => (pc'[t] = "idle" /\ Len(log') = Len(log) + 1)]_vars
    /\ [](\A t \in Threads : HoldsGuard(t) => ENABLED Run(t))
    /\ []<>(\A t \in Threads : pc[t] = "idle")

\* Every thread is back from its calls, among them a push that found the
\* buffer full and a pop that found it empty.
C10_Witness ==
    /\ \A t \in Threads : pc[t] = "idle"
    /\ Len(log) = MaxOps
    /\ inner.capacity >= 1
    /\ \E i, j \in DOMAIN log : log[i].res = Err_Full /\ log[j].res = None

----------------------------------------------------------------------------
\* C11. Lock release on every exit path: the Mutex is locked exactly while one
\* thread is between the lock() of its own push or pop call and that call's
\* return, so a thread whose call returned (Ok, Full, Some(v) or None) holds
\* no guard, and the Mutex is free whenever no thread is inside a call.
C11_LockReleased ==
    /\ Cardinality({t \in Threads : pc[t] \in Critical}) = (IF locked THEN 1 ELSE 0)
    /\ (\A t \in Threads : pc[t] \in {"idle", "panicked"}) => ~locked
    /\ \A t \in Threads : pc[t] \in {"idle", "push_lock", "pop_lock"} =>
            (locked => \E u \in Threads \ {t} : pc[u] \in Critical)

\* Calls have returned on each of the four exit paths, no thread is inside a
\* call, and the Mutex is free.
C11_Witness ==
    /\ \A t \in Threads : pc[t] = "idle"
    /\ ~locked
    /\ \E i, j, k, l \in DOMAIN log :
         /\ log[i].res = Ok
         /\ log[j].res = Err_Full
         /\ log[k].res.tag = "Some"
         /\ log[l].res = None

----------------------------------------------------------------------------
\* C12. Drain after production: when n pushes, none of which failed, took
\* effect before any pop and only pops were made afterwards, by whichever
\* threads and in whichever interleaving, each of the first n pops returns a
\* value and none of them returns None, so exactly n values are collected
\* (the pops after the n-th find the buffer empty).
C12_Drain ==
    \A n \in 0..Len(log) :
        (/\ \A i \in 1..n : log[i].op = "push" /\ log[i].res = Ok
         /\ \A i \in (n + 1)..Len(log) : log[i].op = "pop")
        => \A i \in (n + 1)..Len(log) :
               IF i <= 2 * n THEN log[i].res.tag = "Some" ELSE log[i].res = None

\* Two values were produced and then two pops, all that were made, each
\* collected one of them.
C12_Witness ==
    /\ Len(log) = 4
    /\ \A i \in {1, 2} : log[i].op = "push" /\ log[i].res = Ok
    /\ \A i \in {3, 4} : log[i].op = "pop" /\ log[i].res.tag = "Some"
    /\ log[1].arg # log[2].arg

----------------------------------------------------------------------------
\* C13. Literal scenario: on a buffer of capacity 3, push 1, 2, 3 succeed,
\* push 4 fails with Full, pop returns 1 and then 2, push 4 now succeeds, pop
\* returns 3 and then 4, and the next pop returns None; no call panics.
C13_LiteralScenario ==
    inner.capacity = 3 =>
        /\ \A t \in Threads : pc[t] # "panicked"
        /\ ~poisoned
        /\ Len(log) <= 10
        /\ \A i \in DOMAIN log :
             /\ i \in {1, 2, 3} => log[i] = [op |-> "push", arg |-> i, res |-> Ok]
             /\ i = 4 => log[i] = [op |-> "push", arg |-> 4, res |-> Err_Full]
             /\ i \in {5, 6} => log[i] = [op |-> "pop", arg |-> 0, res |-> Some(i - 4)]
             /\ i = 7 => log[i] = [op |-> "push", arg |-> 4, res |-> Ok]
             /\ i \in {8, 9} => log[i] = [op |-> "pop", arg |-> 0, res |-> Some(i - 5)]
             /\ i = 10 => log[i] = [op |-> "pop", arg |-> 0, res |-> None]

\* The ten calls of the scenario have returned on the capacity-3 buffer.
C13_Witness ==
    /\ inner.capacity = 3
    /\ Len(log) = 10
    /\ pc[TestThread] = "idle"
    /\ log[10].res = None

----------------------------------------------------------------------------
\* C14. A poisoned lock is fatal: once the Mutex is poisoned it stays
\* poisoned and free, and a thread that calls push or pop panics at lock()
\* the first time it runs, so that from then on no call returns (nothing is
\* added to the log) and the RingBuffer is never modified again.
C14_PoisonFatal ==
    /\ [](poisoned => (~locked /\ \A t \in Threads : pc[t] \notin Critical))
    /\ [][poisoned =>
            /\ poisoned'
            /\ inner' = inner
            /\ log' = log
            /\ \A t \in Threads : pc'[t] # pc[t] =>
                  \/ pc[t] = "idle" /\ pc'[t] \in {"push_lock", "pop_lock"}
                  \/ /\ pc[t] \in {"push_lock", "pop_lock"}
                     /\ pc'[t] = "panicked"
                     /\ ret'[t] = Panicked]_vars

\* A thread went down inside a push that had stored its value, and a thread
\* that called afterwards panicked at lock().
C14_Witness ==
    /\ poisoned
    /\ Cardinality({t \in Threads : pc[t] = "panicked"}) >= 2
    /\ \E i \in DOMAIN inner.data : inner.data[i] # None
    /\ Len(log) >= 1

----------------------------------------------------------------------------
\* The indices head, head + 1, .., head + size - 1, modulo the capacity.
Window(rb) == {(rb.head + k) % rb.capacity : k \in 0..(rb.size - 1)}

\* C15. Occupancy window: between operations (no thread holds the guard)
\* exactly the slots at the indices head .. head + size - 1, modulo the
\* capacity, hold a value, and every other slot is empty.
C15_OccupancyWindow ==
    (~locked /\ \A t \in Threads : pc[t] \notin Critical) =>
        \A i \in DOMAIN inner.data : (inner.data[i] # None) <=> (i \in Window(inner))

\* Between operations, a window that starts at slot 1 and leaves slot 0,
\* which held a value before, empty.
C15_Witness ==
    /\ ~locked /\ \A t \in Threads : pc[t] = "idle"
    /\ inner.capacity = 2 /\ inner.head = 1 /\ inner.size = 1
    /\ inner.data[1] # None /\ inner.data[0] = None
    /\ \E i \in DOMAIN log : log[i].res.tag = "Some"

----------------------------------------------------------------------------
\* C16 as stated. Index range, for every capacity new accepts: head and tail
\* are always at least 0 and below the capacity.
C16_Original ==
    /\ 0 <= inner.head /\ inner.head < inner.capacity
    /\ 0 <= inner.tail /\ inner.tail < inner.capacity

\* C16. Index range: for a buffer of capacity at least 1, after any sequence
\* of push and pop, head and tail are at least 0 and below the capacity; in a
\* buffer of capacity 0 they stay 0, which is not below the capacity.
C16_IndexRange ==
    /\ inner.capacity >= 1 => C16_Original
    /\ inner.capacity = 0 => (inner.head = 0 /\ inner.tail = 0)

\* Both cursors have moved, and tail has wrapped around to 0.
C16_Witness ==
    /\ inner.capacity = 2
    /\ inner.head = 1
    /\ inner.tail = 0
    /\ Len(Pushed) = 2 /\ Len(Popped) = 1

----------------------------------------------------------------------------
\* C17. Per-slot state machine: a slot changes only from empty to occupied,
\* by the push that writes slot tail, and from occupied to empty, by the pop
\* that clears slot head.  A push that goes on to write finds slot tail empty
\* (it never overwrites a value); a pop on a buffer that is not empty finds
\* slot head occupied and returns its value, and a pop returns None only when
\* size is 0.
C17_SlotStateMachine ==
    /\ [](\A t \in Threads :
            /\ pc[t] = "push_store" =>
                 (inner.tail \in DOMAIN inner.data /\ inner.data[inner.tail] = None)
            /\ pc[t] = "pop_read" =>
                 (inner.head \in DOMAIN inner.data /\ inner.data[inner.head].tag = "Some")
            /\ pc[t] = "pop_ret" =>
                 /\ (ret[t] = None) <=> (entry[t].size = 0)
                 /\ entry[t].size # 0 =>
                      (ret[t].tag = "Some" /\ ret[t] = entry[t].data[entry[t].head]))
    /\ [][/\ DOMAIN inner'.data = DOMAIN inner.data
          /\ \A i \in DOMAIN inner.data : inner'.data[i] # inner.data[i] =>
                \/ /\ inner.data[i] = None
                   /\ i = inner.tail
                   /\ \E t \in Threads :
                        /\ pc[t] = "push_store" /\ pc'[t] = "push_tail"
                        /\ inner'.data[i] = Some(arg[t])
                \/ /\ inner.data[i].tag = "Some"
                   /\ inner'.data[i] = None
                   /\ i = inner.head
                   /\ \E t \in Threads :
                        pc[t] = "pop_clear" /\ pc'[t] = "pop_head"]_vars

\* A pop is about to return the value of the slot it emptied, while the
\* other slot of the buffer still holds its value.
C17_Witness ==
    \E t \in Threads :
        /\ pc[t] = "pop_ret"
        /\ ret[t].tag = "Some"
        /\ inner.capacity = 2
        /\ inner.data[entry[t].head] = None
        /\ inner.data[1 - entry[t].head].tag = "Some"

----------------------------------------------------------------------------
\* A push leaves head as it found it and a pop leaves tail as it found it.
OtherCursorKept ==
    \A t \in Threads :
        /\ pc[t] \in PushCritical => inner.head = entry[t].head
        /\ pc[t] \in PopCritical => inner.tail = entry[t].tail

\* C18 as stated. Cursor relation, for capacity > 0: in every reachable state
\* tail = (head + size) mod capacity, and head = tail exactly when the buffer
\* is empty or full; a push leaves head unchanged and a pop leaves tail
\* unchanged.
C18_Original ==
    inner.capacity > 0 =>
        /\ inner.tail = (inner.head + inner.size) % inner.capacity
        /\ (inner.head = inner.tail) <=> (inner.size = 0 \/ inner.size = inner.capacity)
        /\ OtherCursorKept

\* The size update a running operation still owes: a push that has advanced
\* tail (line 49) and not yet incremented size (line 50), a pop that has
\* advanced head (line 61) and not yet decremented size (line 62).
SizeOwed ==
    IF \E t \in Threads : pc[t] = "push_size" THEN 1
    ELSE IF \E t \in Threads : pc[t] = "pop_size" THEN -1
    ELSE 0

\* C18. Cursor relation, for capacity > 0: in every reachable state in which
\* no push or pop is in progress tail = (head + size) mod capacity, and head =
\* tail exactly when the buffer is empty or full; inside an operation the
\* relation holds up to the size update the operation still owes.  A push
\* leaves head unchanged and a pop leaves tail unchanged.
C18_CursorRelation ==
    inner.capacity > 0 =>
        /\ (\A t \in Threads : pc[t] \notin Critical) =>
              /\ inner.tail = (inner.head + inner.size) % inner.capacity
              /\ (inner.head = inner.tail) <=>
                     (inner.size = 0 \/ inner.size = inner.capacity)
        /\ inner.tail = (inner.head + inner.size + SizeOwed) % inner.capacity
        /\ OtherCursorKept

\* Between operations, a full buffer whose cursors meet at slot 1.
C18_Witness ==
    /\ \A t \in Threads : pc[t] = "idle"
    /\ inner.capacity = 2
    /\ inner.size = 2
    /\ inner.head = 1 /\ inner.tail = 1

----------------------------------------------------------------------------
\* C19. No panic inside the critical section: for every capacity and every
\* interleaving, a statement of RingBuffer::push or ::pop that indexes data
\* finds its index in range, one that takes a remainder finds capacity
\* different from 0, `size -= 1` finds size above 0 and `size += 1` finds it
\* below usize::MAX; so no thread panics, none terminates holding the guard,
\* and the Mutex is never poisoned.
C19_NoPanic ==
    /\ ~poisoned
    /\ \A t \in Threads :
         /\ pc[t] # "panicked"
         /\ ret[t] # Panicked
         /\ pc[t] = "push_store" => inner.tail \in DOMAIN inner.data
         /\ pc[t] = "push_tail" => inner.capacity # 0
         /\ pc[t] = "push_size" => inner.size < UsizeMax
         /\ pc[t] = "pop_read" => inner.head \in DOMAIN inner.data
         /\ pc[t] = "pop_head" => inner.capacity # 0
         /\ pc[t] = "pop_size" => inner.size > 0

\* A pop is about to take the last value's count off size, in a buffer of
\* capacity 1 whose head just wrapped, while another thread waits for the
\* lock.
C19_Witness ==
    \E t, u \in Threads :
        /\ pc[t] = "pop_size"
        /\ inner.capacity = 1
        /\ inner.size = 1
        /\ pc[u] \in {"push_lock", "pop_lock"}
        /\ Len(log) >= 2

----------------------------------------------------------------------------
\* The values the reader received, in the order it received them.
ReaderValues == SelectSeq(ReaderLog, LAMBDA e : e.res.tag = "Some")

\* C20. The demo program main, on its capacity-5 buffer: the single-threaded
\* phase pushes 10 and 20, pops 10, pushes 30, pops 20 and then 30, and
\* leaves the buffer empty; then, whatever the interleaving of the writer
\* (push 1..=5, unwrapped) and the reader (5 pops), no push returns Full, no
\* thread panics, the values the reader receives are 1, 2, .. in order (a
\* prefix of 1, 2, 3, 4, 5), and both threads finish their loops.
C20_MainDemo ==
    /\ [](/\ \A t \in Threads : pc[t] # "panicked"
          /\ ~poisoned
          /\ \A i \in DOMAIN log :
               /\ i = 1 => log[i] = [op |-> "push", arg |-> 10, res |-> Ok]
               /\ i = 2 => log[i] = [op |-> "push", arg |-> 20, res |-> Ok]
               /\ i = 3 => log[i] = [op |-> "pop", arg |-> 0, res |-> Some(10)]
               /\ i = 4 => log[i] = [op |-> "push", arg |-> 30, res |-> Ok]
               /\ i = 5 => log[i] = [op |-> "pop", arg |-> 0, res |-> Some(20)]
               /\ i = 6 => log[i] = [op |-> "pop", arg |-> 0, res |-> Some(30)]
               /\ (i > 6 /\ log[i].op = "push") => log[i].res = Ok
          /\ (Len(log) = 6 /\ \A t \in Threads : pc[t] = "idle") =>
               (inner.size = 0 /\ \A i \in DOMAIN inner.data : inner.data[i] = None)
          /\ Len(ReaderValues) <= 5
          /\ \A k \in DOMAIN ReaderValues : ReaderValues[k].res.v = k)
    /\ <>(/\ \A t \in Threads : pc[t] = "idle"
          /\ Len(WriterLog) = 5
          /\ Len(ReaderLog) = 5)

\* Both threads have finished: the writer pushed its five values, and the
\* reader, which found the buffer empty at least once, received the first
\* few of them.
C20_Witness ==
    /\ \A t \in Threads : pc[t] = "idle"
    /\ Len(WriterLog) = 5
    /\ Len(ReaderLog) = 5
    /\ Len(ReaderValues) \in 1..4
    /\ inner.size = 5 - Len(ReaderValues)

====
